---- MODULE Spec2Model ----
(***************************************************************************)
(* Fund Nowcast: the dashboard script (src/main.py) and the data collector *)
(* (src/data_collector.py).                                                *)
(*                                                                         *)
(* Python floats are modelled as exact rationals <<n, d>> (d > 0, lowest   *)
(* terms); None is the empty tuple <<>> and a present value x is <<x>>.    *)
(***************************************************************************)
EXTENDS Integers, Sequences, FiniteSets, TLC

(***************************************************************************)
(* Bounds of the model.                                                    *)
(***************************************************************************)
MaxHoldings == 2
MaxRecords == 3
MaxTickers == 3
MaxTime == 80
TickStep == 20

(***************************************************************************)
(* Arithmetic.                                                             *)
(***************************************************************************)
Abs(n) == IF n < 0 THEN -n ELSE n

RECURSIVE GCD(_, _)
GCD(a, b) == IF b = 0 THEN a ELSE GCD(b, a % b)

\* The rational n/d in lowest terms with a positive denominator (d # 0).
Rat(n, d) ==
    LET s == IF d < 0 THEN -1 ELSE 1
        g == GCD(Abs(n), Abs(d))
    IN  <<(s * n) \div g, (s * d) \div g>>

R(n) == <<n, 1>>
Zero == R(0)
\* Sums and products cancel common factors first, to keep the integers small.
RAdd(x, y) ==
    LET g == GCD(x[2], y[2])
    IN  Rat(x[1] * (y[2] \div g) + y[1] * (x[2] \div g), (x[2] \div g) * y[2])
RNeg(x) == <<-x[1], x[2]>>
RSub(x, y) == RAdd(x, RNeg(y))
RMul(x, y) ==
    LET g == GCD(Abs(x[1]), y[2])
        h == GCD(Abs(y[1]), x[2])
    IN  Rat((x[1] \div g) * (y[1] \div h), (x[2] \div h) * (y[2] \div g))
\* Python's x / y for y # 0; callers decide what a zero divisor does.
RDiv(x, y) == RMul(x, IF y[1] < 0 THEN <<-y[2], -y[1]>> ELSE <<y[2], y[1]>>)

None == <<>>
Some(x) == <<x>>
\* Python truthiness of an optional float: None and 0.0 are both falsy.
Truthy(o) == o # None /\ o[1] # Zero

(***************************************************************************)
(* Configuration: the two funds' tracked holdings and coverage weights.    *)
(***************************************************************************)
Holding(t, w, n) == [ticker |-> t, weight |-> Rat(w, 100), name |-> n]

LGRRX_TOP_10 ==
    << Holding("NVDA", 1014, "NVIDIA"),
       Holding("META", 854, "Meta"),
       Holding("NFLX", 806, "Netflix"),
       Holding("TSLA", 644, "Tesla"),
       Holding("AMZN", 593, "Amazon"),
       Holding("ORCL", 564, "Oracle"),
       Holding("GOOGL", 533, "Alphabet"),
       Holding("V", 513, "Visa"),
       Holding("BA", 474, "Boeing"),
       Holding("MSFT", 463, "Microsoft") >>
LGRRX_TOTAL_TOP10_WEIGHT == Rat(6457, 100)

SP500_TOP_10 ==
    << Holding("NVDA", 791, "NVIDIA Corp"),
       Holding("MSFT", 669, "Microsoft Corp"),
       Holding("AAPL", 657, "Apple Inc"),
       Holding("AMZN", 370, "Amazon.com Inc"),
       Holding("META", 277, "Meta Platforms"),
       Holding("AVGO", 270, "Broadcom Inc"),
       Holding("GOOGL", 246, "Alphabet Class A"),
       Holding("TSLA", 217, "Tesla Inc"),
       Holding("GOOG", 198, "Alphabet Class C"),
       Holding("BRK-B", 160, "Berkshire Hathaway") >>
SP500_TOTAL_TOP10_WEIGHT == Rat(3855, 100)

(***************************************************************************)
(* The market-data source, as fetch_stock_data sees it for one holding:    *)
(* the outcome of history(period="1d", interval="1m"), of                  *)
(* info.get('previousClose') and of history(period="5d").                  *)
(***************************************************************************)
Prices == {R(0), R(110)}
\* data.index[-1] after tz_convert(cst), as <<hour, minute>> of the day.
BarTimes == {<<0, 5>>, <<13, 30>>}
Intraday ==
    {[kind |-> "raise"], [kind |-> "empty"]}
    \cup {[kind |-> "bars", close |-> p, at |-> t] : p \in Prices, t \in BarTimes}
Info ==
    {[kind |-> "raise"]}
    \cup {[kind |-> "dict", previousClose |-> v] : v \in {None, Some(R(0)), Some(R(100))}}
Hist5d ==
    {[kind |-> "raise"]}
    \cup {[kind |-> "rows", closes |-> c] :
            c \in {<<>>, <<R(100)>>, <<R(100), R(120)>>, <<R(0), R(120)>>,
                   <<R(90), R(100), R(120)>>}}
Quotes == [intraday : Intraday, info : Info, hist : Hist5d]

Pad2(n) == IF n < 10 THEN "0" \o ToString(n) ELSE ToString(n)
\* strftime("%I:%M %p CST")
FormatTime(t) ==
    LET h12 == IF t[1] % 12 = 0 THEN 12 ELSE t[1] % 12
    IN  Pad2(h12) \o ":" \o Pad2(t[2]) \o (IF t[1] < 12 THEN " AM" ELSE " PM") \o " CST"

(***************************************************************************)
(* State.                                                                  *)
(***************************************************************************)
VARIABLES
    \* fetch_stock_data: its argument, its local list, the source's answer for
    \* the holding handled last, and whether it has returned
    holdings_list, results, quote, fetch_pc,
    \* calculate_fund_change: its two arguments, its outcome, and whether it ran
    holdings_data, total_weight, fund_change, calc_pc,
    \* data collector: the command line's tickers, today's date, the list and
    \* the run date main works with, each handled ticker's download outcome,
    \* the files written to the output directory, and main's position
    argv_tickers, today, tickers, run_date, downloads, files, coll_pc,
    \* dashboard: the clock, st.cache_data's entries for fetch_stock_data, the
    \* widgets (the two NAV inputs, the Refresh button of the pending run), the
    \* tab block the running script is at, and each tab's script variables
    now, cache, baseline_nav, button, run_pc,
    tab_holdings_data, tab_fund_change, tab_estimated_nav,
    \* for each tab's estimate, the age of the records it used and whether they
    \* were retrieved before the latest Refresh click
    used,
    \* the manual price the user wants to apply to one holding
    manual_price

fetchVars == <<holdings_list, results, quote, fetch_pc>>
calcVars == <<holdings_data, total_weight, fund_change, calc_pc>>
collVars == <<argv_tickers, today, tickers, run_date, downloads, files, coll_pc>>
dashVars == <<now, cache, baseline_nav, button, run_pc, tab_holdings_data,
              tab_fund_change, tab_estimated_nav, used, manual_price>>
vars == <<fetchVars, calcVars, collVars, dashVars>>
\* What each component leaves alone: the four run in separate processes.
fetchOnly == <<calcVars, collVars, dashVars>>
calcOnly == <<fetchVars, collVars, dashVars>>
collOnly == <<fetchVars, calcVars, dashVars>>
dashOnly == <<fetchVars, calcVars, collVars>>

(***************************************************************************)
(* fetch_stock_data (src/main.py 40-92).                                   *)
(***************************************************************************)
\* Lines 71-73: the change is computed when both operands are truthy.
ChangePct(current_price, prev_close) ==
    IF Truthy(current_price) /\ Truthy(prev_close)
    THEN Some(RMul(RDiv(RSub(current_price[1], prev_close[1]), prev_close[1]), R(100)))
    ELSE None

\* Lines 61-64: ticker.info.get('previousClose'), any exception swallowed.
InfoPrevClose(q) ==
    IF q.info.kind = "raise" THEN None ELSE q.info.previousClose

\* Lines 66-69: the fallback runs only when the first lookup gave None.
NeedsFallback(q) == InfoPrevClose(q) = None

\* Whether the body of the outer try raises for this answer of the source:
\* lines 47-57 raise (the 1-minute history) or the 5-day history (line 67)
\* raises.
BodyRaises(q) ==
    \/ q.intraday.kind = "raise"
    \/ NeedsFallback(q) /\ q.hist.kind = "raise"

\* Lines 60-69.
PrevClose(q) ==
    IF ~NeedsFallback(q) THEN InfoPrevClose(q)
    ELSE IF Len(q.hist.closes) >= 2
         THEN Some(q.hist.closes[Len(q.hist.closes) - 1])
         ELSE None

\* A mutated except branch that files the ticker under "name".
FailedRecord_TickerAsName(holding) ==
    [ticker |-> holding.ticker, name |-> holding.ticker, weight |-> holding.weight,
     price |-> None, change |-> None, updated |-> None]

\* Lines 84-91: the record appended by the except branch.
FailedRecord(holding) ==
    [ticker |-> holding.ticker, name |-> holding.name, weight |-> holding.weight,
     price |-> None, change |-> None, updated |-> None]

\* Lines 52-82: the record appended when the body runs to its end.
FetchedRecord(holding, q) ==
    LET has_bars == q.intraday.kind = "bars"
        current_price == IF has_bars THEN Some(q.intraday.close) ELSE None
        update_time == IF has_bars THEN Some(FormatTime(q.intraday.at)) ELSE None
    IN  [ticker |-> holding.ticker, name |-> holding.name, weight |-> holding.weight,
         price |-> current_price,
         change |-> ChangePct(current_price, PrevClose(q)),
         updated |-> update_time]

\* Lines 46-91: one iteration of the loop, try and except together.
HoldingRecord(holding, q) ==
    IF BodyRaises(q) THEN FailedRecord(holding) ELSE FetchedRecord(holding, q)

\* Lines 42-92: the whole call, given the source's answer for each holding.
fetch_stock_data(holdings, qs) ==
    [i \in 1..Len(holdings) |-> HoldingRecord(holdings[i], qs[i])]

\* Holdings lists the function is exercised on.
SomeHoldings == {LGRRX_TOP_10[1], SP500_TOP_10[2]}
HoldingsLists == UNION {[1..n -> SomeHoldings] : n \in 0..MaxHoldings}

\* One iteration of "for holding in holdings_list" (lines 45-91).
FetchHolding ==
    /\ fetch_pc = "loop"
    /\ Len(results) < Len(holdings_list)
    /\ \E q \in Quotes :
        /\ quote' = q
        /\ results' = Append(results, HoldingRecord(holdings_list[Len(results) + 1], q))
    /\ UNCHANGED <<holdings_list, fetch_pc>>
    /\ UNCHANGED fetchOnly

\* Line 92.
FetchReturn ==
    /\ fetch_pc = "loop"
    /\ Len(results) = Len(holdings_list)
    /\ fetch_pc' = "returned"
    /\ UNCHANGED <<holdings_list, results, quote>>
    /\ UNCHANGED fetchOnly

FetchNext == FetchHolding \/ FetchReturn

(***************************************************************************)
(* calculate_fund_change (src/main.py 95-101) and the estimated NAV        *)
(* (src/main.py 163, 212).                                                 *)
(***************************************************************************)
Returns(x) == [ok |-> TRUE, value |-> x]
Raises(e) == [ok |-> FALSE, error |-> e]

\* Line 96.
Valid(data) == SelectSeq(data, LAMBDA h : h.change # None)

\* Line 99: sum(h["change"] * h["weight"] / 100 for h in valid).
RECURSIVE weighted_change(_)
weighted_change(valid) ==
    IF valid = <<>> THEN Zero
    ELSE RAdd(weighted_change(SubSeq(valid, 1, Len(valid) - 1)),
              RDiv(RMul(valid[Len(valid)].change[1], valid[Len(valid)].weight), R(100)))

\* The divisor a mutated estimator uses: the weights of the valid records only.
RECURSIVE ValidWeight(_)
ValidWeight(valid) ==
    IF valid = <<>> THEN Zero
    ELSE RAdd(ValidWeight(Tail(valid)), Head(valid).weight)

calculate_fund_change_valid_weight(data, weight) ==
    LET valid == Valid(data)
    IN  IF valid = <<>> THEN Returns(Zero)
        ELSE Returns(RMul(RDiv(weighted_change(valid), ValidWeight(valid)), R(100)))

\* A mutated estimator that divides before it looks at the valid records.
calculate_fund_change_divide_first(data, weight) ==
    IF weight = Zero THEN Raises("ZeroDivisionError")
    ELSE Returns(RMul(RDiv(weighted_change(Valid(data)), weight), R(100)))

\* Lines 95-101.
calculate_fund_change(data, weight) ==
    LET valid == Valid(data)
    IN  IF valid = <<>> THEN Returns(Zero)
        ELSE IF weight = Zero THEN Raises("ZeroDivisionError")
        ELSE Returns(RMul(RDiv(weighted_change(valid), weight), R(100)))

\* A mutated NAV formula that adds the percentage without dividing by 100.
estimated_nav_no_percent(nav, change) ==
    RMul(nav, RAdd(R(1), change))

\* Lines 163 and 212: baseline_nav * (1 + fund_change / 100).
estimated_nav(nav, change) ==
    RMul(nav, RAdd(R(1), RDiv(change, R(100))))

\* The records and weights the estimator is exercised on.
SomeWeights == {R(10), R(5)}
SomeChanges == {None, Some(R(5)), Some(R(-10)), Some(R(0))}
SomeRecords == [weight : SomeWeights, change : SomeChanges]
RecordLists == UNION {[1..n -> SomeRecords] : n \in 0..MaxRecords}
TotalWeights == {R(0), R(15), LGRRX_TOTAL_TOP10_WEIGHT}

\* One call of calculate_fund_change.
Calculate ==
    /\ calc_pc = "call"
    /\ fund_change' = calculate_fund_change(holdings_data, total_weight)
    /\ calc_pc' = "done"
    /\ UNCHANGED <<holdings_data, total_weight>>
    /\ UNCHANGED calcOnly

CalcNext == Calculate

(***************************************************************************)
(* The data collector (src/data_collector.py).                             *)
(***************************************************************************)
DEFAULT_TICKERS == <<"LGRRX">>

\* A mutated default: an empty command line stays empty.
ArgsTickers_NoDefault(given) == given

\* Line 42: args.tickers or DEFAULT_TICKERS (an empty list is falsy).
ArgsTickers(given) == IF given = <<>> THEN DEFAULT_TICKERS ELSE given

\* Line 46: datetime.now().strftime("%Y%m%d"), of a date <<year, month, day>>.
RunDate(date) == ToString(date[1]) \o Pad2(date[2]) \o Pad2(date[3])

\* Line 52.
out_path(ticker, date) == ticker \o "_last_60d_" \o date \o ".csv"

\* Lines 12-23: what yf.download gives for one ticker.
Downloads == {"data", "empty", "raise"}

SomeTickers == {"LGRRX", "AAPL"}
TickerLists == UNION {[1..n -> SomeTickers] : n \in 0..MaxTickers}
SomeDates == {<<2025, 1, 5>>, <<2025, 12, 31>>}

\* Lines 40-46: the arguments, the output directory, the run date.
CollectorStart ==
    /\ coll_pc = "start"
    /\ tickers' = ArgsTickers(argv_tickers)
    /\ run_date' = RunDate(today)
    /\ coll_pc' = "loop"
    /\ UNCHANGED <<argv_tickers, today, downloads, files>>
    /\ UNCHANGED collOnly

\* Lines 47-54: one iteration of "for ticker in tickers".
CollectTicker ==
    /\ coll_pc = "loop"
    /\ Len(downloads) < Len(tickers)
    /\ \E d \in Downloads :
        /\ downloads' = Append(downloads, d)
        /\ files' = IF d = "data"
                    THEN files \cup {out_path(tickers[Len(downloads) + 1], run_date)}
                    ELSE files
        /\ coll_pc' = IF d = "raise" THEN "raised" ELSE "loop"
    /\ UNCHANGED <<argv_tickers, today, tickers, run_date>>
    /\ UNCHANGED collOnly

\* The loop is exhausted and main returns.
CollectorExit ==
    /\ coll_pc = "loop"
    /\ Len(downloads) = Len(tickers)
    /\ coll_pc' = "done"
    /\ UNCHANGED <<argv_tickers, today, tickers, run_date, downloads, files>>
    /\ UNCHANGED collOnly

CollNext == CollectorStart \/ CollectTicker \/ CollectorExit

(***************************************************************************)
(* The dashboard script (src/main.py 140-245) under Streamlit: every       *)
(* widget interaction runs the script again from the top; a button is True *)
(* only in the run its click starts; st.rerun() abandons the run and       *)
(* starts another; st.cache_data keeps one entry per argument value.       *)
(***************************************************************************)
Funds == {"lgrrx", "sp500"}
TOP_10(f) == IF f = "lgrrx" THEN LGRRX_TOP_10 ELSE SP500_TOP_10
TOTAL_TOP10_WEIGHT(f) ==
    IF f = "lgrrx" THEN LGRRX_TOTAL_TOP10_WEIGHT ELSE SP500_TOTAL_TOP10_WEIGHT
\* Lines 151 and 200: value=73.81, value=65.93.
DefaultNav(f) == IF f = "lgrrx" THEN Rat(7381, 100) ELSE Rat(6593, 100)
\* Lines 154 and 203: key="lgrrx_refresh", key="sp500_refresh".
RefreshKey(f) == f \o "_refresh"
\* tab1's block runs before tab2's (lines 146, 195).
NextBlock(f) == IF f = "lgrrx" THEN "sp500" ELSE "idle"

\* Line 40: ttl=60.
TTL == 60

\* A mutated cache that never expires an entry.
CacheHit_NoTtl(entry, t) == entry # None

\* Line 40: an entry is served while it is younger than the ttl.
CacheHit(entry, t) == entry # None /\ t - entry[1].at < TTL

\* What the market-data source answers for the ten holdings of a fund in one
\* call: the same answer for all, or two answers alternating.
QuoteUp == [intraday |-> [kind |-> "bars", close |-> R(110), at |-> <<13, 30>>],
            info |-> [kind |-> "dict", previousClose |-> Some(R(100))],
            hist |-> [kind |-> "rows", closes |-> <<R(100), R(120)>>]]
QuoteDown == [intraday |-> [kind |-> "bars", close |-> R(110), at |-> <<0, 5>>],
              info |-> [kind |-> "raise"],
              hist |-> [kind |-> "rows", closes |-> <<R(90), R(120), R(110)>>]]
QuoteFail == [intraday |-> [kind |-> "raise"],
              info |-> [kind |-> "raise"],
              hist |-> [kind |-> "raise"]]
Markets ==
    {[i \in 1..10 |-> q] : q \in {QuoteUp, QuoteDown, QuoteFail}}
    \cup {[i \in 1..10 |-> IF i % 2 = 1 THEN QuoteUp ELSE QuoteFail]}

\* Values the user types into a NAV input besides its default.
NavInputs == {R(100)}
\* A manual price the user wants to apply to the first holding of a fund.
ManualPrices == {[fund |-> f, holding |-> 1, price |-> R(120)] : f \in Funds}

NoTab == [f \in Funds |-> None]

\* A new run of the script: its variables are unbound again.
StartRun ==
    /\ run_pc' = "lgrrx"
    /\ tab_holdings_data' = NoTab
    /\ tab_fund_change' = NoTab
    /\ tab_estimated_nav' = NoTab
    /\ used' = NoTab

\* Lines 161-163 and 210-212, with the records fetch_stock_data handed back
\* (the two configured total weights are not 0, so the call returns).
Estimate(f, data, age, stale) ==
    LET change == calculate_fund_change(data, TOTAL_TOP10_WEIGHT(f))
    IN  /\ tab_holdings_data' = [tab_holdings_data EXCEPT ![f] = Some(data)]
        /\ tab_fund_change' = [tab_fund_change EXCEPT ![f] = Some(change.value)]
        /\ tab_estimated_nav' =
              [tab_estimated_nav EXCEPT ![f] = Some(estimated_nav(baseline_nav[f], change.value))]
        /\ used' = [used EXCEPT ![f] = Some([age |-> age, before_click |-> stale])]
        /\ run_pc' = NextBlock(f)

\* Lines 154-156 and 203-205: the tab's Refresh button is True in this run.
RefreshPressed(f) ==
    /\ run_pc = f
    /\ button = RefreshKey(f)
    /\ cache' = NoTab
    /\ button' = "none"
    /\ StartRun
    /\ UNCHANGED <<now, baseline_nav, manual_price>>
    /\ UNCHANGED dashOnly

\* Lines 158-163 and 207-212 when the cache serves the call.
RenderCached(f) ==
    /\ run_pc = f
    /\ button # RefreshKey(f)
    /\ CacheHit(cache[f], now)
    /\ Estimate(f, cache[f][1].data, now - cache[f][1].at, cache[f][1].before_click)
    /\ UNCHANGED <<now, cache, baseline_nav, button, manual_price>>
    /\ UNCHANGED dashOnly

\* Lines 158-163 and 207-212 when fetch_stock_data runs; its result is cached
\* with the time of the call.
RenderFetched(f) ==
    /\ run_pc = f
    /\ button # RefreshKey(f)
    /\ ~CacheHit(cache[f], now)
    /\ \E qs \in Markets :
        LET data == fetch_stock_data(TOP_10(f), qs)
        IN  /\ cache' = [cache EXCEPT ![f] =
                    Some([data |-> data, at |-> now, before_click |-> FALSE])]
            /\ Estimate(f, data, 0, FALSE)
    /\ UNCHANGED <<now, baseline_nav, button, manual_price>>
    /\ UNCHANGED dashOnly

\* The user clicks a tab's Refresh button on the rendered page.
ClickRefresh(f) ==
    /\ run_pc = "idle"
    /\ button' = RefreshKey(f)
    /\ cache' = [g \in Funds |->
                   IF cache[g] = None THEN None
                   ELSE Some([cache[g][1] EXCEPT !.before_click = TRUE])]
    /\ StartRun
    /\ UNCHANGED <<now, baseline_nav, manual_price>>
    /\ UNCHANGED dashOnly

\* The user edits a tab's "Enter Last Official NAV" input (lines 151, 200).
EditBaselineNav(f) ==
    /\ run_pc = "idle"
    /\ \E v \in (NavInputs \cup {DefaultNav(f)}) \ {baseline_nav[f]} :
        baseline_nav' = [baseline_nav EXCEPT ![f] = v]
    /\ StartRun
    /\ UNCHANGED <<now, cache, button, manual_price>>
    /\ UNCHANGED dashOnly

\* The user asks for a manual price for a holding; the script has no widget
\* for it, so it reads nothing of it in the run that follows.
EnterManualPrice ==
    /\ run_pc = "idle"
    /\ \E m \in ManualPrices : manual_price # Some(m) /\ manual_price' = Some(m)
    /\ StartRun
    /\ UNCHANGED <<now, cache, baseline_nav, button>>
    /\ UNCHANGED dashOnly

\* Time passes.
Tick ==
    /\ now + TickStep <= MaxTime
    /\ now' = now + TickStep
    /\ UNCHANGED <<cache, baseline_nav, button, run_pc, tab_holdings_data,
                   tab_fund_change, tab_estimated_nav, used, manual_price>>
    /\ UNCHANGED dashOnly

DashNext ==
    \/ \E f \in Funds : RefreshPressed(f)
    \/ \E f \in Funds : RenderCached(f)
    \/ \E f \in Funds : RenderFetched(f)
    \/ \E f \in Funds : ClickRefresh(f)
    \/ \E f \in Funds : EditBaselineNav(f)
    \/ EnterManualPrice
    \/ Tick

(***************************************************************************)
(* Initial states: each specification starts one component and leaves the  *)
(* others where they are before they run.                                   *)
(***************************************************************************)
NoQuote == [intraday |-> [kind |-> "empty"],
            info |-> [kind |-> "dict", previousClose |-> None],
            hist |-> [kind |-> "rows", closes |-> <<>>]]

\* A session opens: the script starts its first run with the widget defaults.
Init ==
    /\ holdings_list = <<>> /\ results = <<>> /\ quote = NoQuote /\ fetch_pc = "idle"
    /\ holdings_data = <<>> /\ total_weight = Zero
    /\ fund_change = Returns(Zero) /\ calc_pc = "idle"
    /\ argv_tickers = <<>> /\ today = <<2025, 1, 5>> /\ tickers = <<>>
    /\ run_date = "" /\ downloads = <<>> /\ files = {} /\ coll_pc = "idle"
    /\ now = 0
    /\ cache = NoTab
    /\ baseline_nav = [f \in Funds |-> DefaultNav(f)]
    /\ button = "none"
    /\ run_pc = "lgrrx"
    /\ tab_holdings_data = NoTab
    /\ tab_fund_change = NoTab
    /\ tab_estimated_nav = NoTab
    /\ used = NoTab
    /\ manual_price = None

\* fetch_stock_data is called on a list of holdings.
InitFetch ==
    /\ holdings_list \in HoldingsLists
    /\ results = <<>> /\ quote = NoQuote /\ fetch_pc = "loop"
    /\ holdings_data = <<>> /\ total_weight = Zero
    /\ fund_change = Returns(Zero) /\ calc_pc = "idle"
    /\ argv_tickers = <<>> /\ today = <<2025, 1, 5>> /\ tickers = <<>>
    /\ run_date = "" /\ downloads = <<>> /\ files = {} /\ coll_pc = "idle"
    /\ now = 0 /\ cache = NoTab /\ baseline_nav = [f \in Funds |-> DefaultNav(f)]
    /\ button = "none" /\ run_pc = "off"
    /\ tab_holdings_data = NoTab /\ tab_fund_change = NoTab
    /\ tab_estimated_nav = NoTab /\ used = NoTab /\ manual_price = None

\* calculate_fund_change is called on a list of records and a total weight.
InitCalc ==
    /\ holdings_list = <<>> /\ results = <<>> /\ quote = NoQuote /\ fetch_pc = "idle"
    /\ holdings_data \in RecordLists
    /\ total_weight \in TotalWeights
    /\ fund_change = Returns(Zero) /\ calc_pc = "call"
    /\ argv_tickers = <<>> /\ today = <<2025, 1, 5>> /\ tickers = <<>>
    /\ run_date = "" /\ downloads = <<>> /\ files = {} /\ coll_pc = "idle"
    /\ now = 0 /\ cache = NoTab /\ baseline_nav = [f \in Funds |-> DefaultNav(f)]
    /\ button = "none" /\ run_pc = "off"
    /\ tab_holdings_data = NoTab /\ tab_fund_change = NoTab
    /\ tab_estimated_nav = NoTab /\ used = NoTab /\ manual_price = None

\* The data collector is started with a command line on some day.
InitCollector ==
    /\ holdings_list = <<>> /\ results = <<>> /\ quote = NoQuote /\ fetch_pc = "idle"
    /\ holdings_data = <<>> /\ total_weight = Zero
    /\ fund_change = Returns(Zero) /\ calc_pc = "idle"
    /\ argv_tickers \in TickerLists
    /\ today \in SomeDates
    /\ tickers = <<>> /\ run_date = "" /\ downloads = <<>> /\ files = {}
    /\ coll_pc = "start"
    /\ now = 0 /\ cache = NoTab /\ baseline_nav = [f \in Funds |-> DefaultNav(f)]
    /\ button = "none" /\ run_pc = "off"
    /\ tab_holdings_data = NoTab /\ tab_fund_change = NoTab
    /\ tab_estimated_nav = NoTab /\ used = NoTab /\ manual_price = None

(***************************************************************************)
(* Specifications.                                                         *)
(***************************************************************************)
Next == DashNext

\* The dashboard session.
Spec == Init /\ [][Next]_vars

\* One call of fetch_stock_data; the loop is not preempted.
SpecFetch == InitFetch /\ [][FetchNext]_vars /\ WF_vars(FetchNext)

\* One call of calculate_fund_change.
SpecCalc == InitCalc /\ [][CalcNext]_vars

\* One run of the data collector.
SpecCollector == InitCollector /\ [][CollNext]_vars

(***************************************************************************)
(* Properties of calculate_fund_change.                                    *)
(***************************************************************************)
HasDefinedChange(data) == \E i \in 1..Len(data) : data[i].change # None

\* Sum over all records of change * weight, an undefined change counting as 0.
RECURSIVE ChangeTimesWeight(_)
ChangeTimesWeight(data) ==
    IF data = <<>> THEN Zero
    ELSE RAdd(IF Head(data).change = None THEN Zero
              ELSE RMul(Head(data).change[1], Head(data).weight),
              ChangeTimesWeight(Tail(data)))

\* C1: for total_weight > 0 and at least one record with a defined change, the
\* result is (sum over the records with a defined change of change * weight /
\* 100) / total_weight * 100: the result times the full total_weight equals the
\* sum of change * weight in which a record without a change counts as 0.
C1_ScaledByTotalWeight ==
    (calc_pc = "done" /\ total_weight[1] > 0 /\ HasDefinedChange(holdings_data))
        => /\ fund_change.ok
           /\ RMul(fund_change.value, total_weight) = ChangeTimesWeight(holdings_data)

C1_Witness ==
    /\ calc_pc = "done"
    /\ total_weight = R(15)
    /\ \E i \in 1..Len(holdings_data) : holdings_data[i].change = None
    /\ \E i \in 1..Len(holdings_data) : holdings_data[i].change = Some(R(5))
    /\ fund_change.ok
    /\ fund_change.value # Zero

\* C2: when no record has a defined change (the empty list included) the
\* result is 0 for every weight and every total_weight, total_weight = 0
\* included: nothing is divided by total_weight.
C2_NoDataIsZero ==
    (calc_pc = "done" /\ ~HasDefinedChange(holdings_data))
        => fund_change = Returns(Zero)

C2_Witness ==
    /\ calc_pc = "done"
    /\ Len(holdings_data) >= 2
    /\ ~HasDefinedChange(holdings_data)
    /\ total_weight = Zero
    /\ fund_change = Returns(Zero)

(***************************************************************************)
(* Properties of fetch_stock_data.                                         *)
(***************************************************************************)
LastRecord == results[Len(results)]

\* A failure while fetching a holding: a lookup raises and the exception
\* leaves the holding's try block.
FetchFails(q) ==
    \/ q.intraday.kind = "raise"
    \/ /\ q.hist.kind = "raise"
       /\ q.info.kind = "raise" \/ q.info.previousClose = None

\* C3: the change of a holding is defined exactly when its price and its
\* previous close are both present and the previous close is not 0, and then
\* equals (price - previousClose) / previousClose * 100; a price of 0 with a
\* non-zero previous close gives -100.
C3_ChangeDefinedIffBothPresent ==
    (results # <<>> /\ ~FetchFails(quote)) =>
        LET price == IF quote.intraday.kind = "bars"
                     THEN Some(quote.intraday.close) ELSE None
            prev == PrevClose(quote)
            defined == price # None /\ prev # None /\ prev[1] # Zero
        IN  /\ (LastRecord.change # None) <=> defined
            /\ defined =>
                 LastRecord.change =
                     Some(RMul(RDiv(RSub(price[1], prev[1]), prev[1]), R(100)))

\* C5, in every state: one record per holding handled so far, in input order,
\* with the holding's ticker, name and weight; a failure leaves a record with
\* price, change and updated absent; the call returns only with a record for
\* every holding.
C5_Records ==
    /\ Len(results) <= Len(holdings_list)
    /\ \A j \in 1..Len(results) :
        /\ results[j].ticker = holdings_list[j].ticker
        /\ results[j].name = holdings_list[j].name
        /\ results[j].weight = holdings_list[j].weight
    /\ (results # <<>> /\ FetchFails(quote)) =>
        /\ LastRecord.price = None
        /\ LastRecord.change = None
        /\ LastRecord.updated = None
    /\ fetch_pc = "returned" => Len(results) = Len(holdings_list)

\* C5, in every step: the records of the holdings handled before stay as
\* they are, whatever happens to the holding handled now.
C5_OthersKept ==
    \A j \in 1..Len(results) : Len(results') >= j /\ results'[j] = results[j]

\* C5: for every holdings list and every pattern of per-holding failures,
\* fetch_stock_data terminates and returns exactly one record per holding, in
\* input order, with ticker, name and weight unchanged; a failure gives that
\* holding an all-absent record, changes no other record and does not stop
\* the loop.
C5_OneRecordPerHolding ==
    /\ []C5_Records
    /\ [][C5_OthersKept]_vars
    /\ <>(fetch_pc = "returned")

C5_Witness ==
    /\ fetch_pc = "returned"
    /\ Len(results) = 2
    /\ results[1].price # None
    /\ results[1].change # None
    /\ FetchFails(quote)
    /\ results[2].price = None

\* C7: when the latest price has been retrieved, the record reports that
\* price and its timestamp, whether or not retrieving the previous close
\* succeeds, the 5-day fallback raising included.
C7_PriceSurvivesPrevCloseFailure ==
    (results # <<>> /\ quote.intraday.kind = "bars") =>
        /\ LastRecord.price = Some(quote.intraday.close)
        /\ LastRecord.updated = Some(FormatTime(quote.intraday.at))

(***************************************************************************)
(* Properties of the data collector.                                       *)
(***************************************************************************)
\* <ticker>_last_60d_<YYYYMMDD>.csv for the day the run started.
ExpectedFile(ticker) ==
    ticker \o "_last_60d_"
           \o ToString(today[1] * 10000 + today[2] * 100 + today[3]) \o ".csv"

\* C10: the list is the command line's, or ['LGRRX'] when that is empty;
\* the files written are exactly <ticker>_last_60d_<run date>.csv for the
\* tickers whose download returned data, one each; a ticker without data gets
\* none; and an empty download does not keep main from handling every later
\* ticker.
C10_OneFilePerTickerWithData ==
    coll_pc \in {"loop", "done", "raised"} =>
        /\ tickers = IF argv_tickers = <<>> THEN <<"LGRRX">> ELSE argv_tickers
        /\ files = {ExpectedFile(tickers[i]) :
                      i \in {j \in 1..Len(downloads) : downloads[j] = "data"}}
        /\ (downloads # <<>> /\ downloads[Len(downloads)] = "empty")
             => (coll_pc = "done" \/ ENABLED CollNext)
        /\ coll_pc = "done" => Len(downloads) = Len(tickers)

C10_Witness ==
    /\ coll_pc = "done"
    /\ argv_tickers = <<"AAPL", "LGRRX", "AAPL">>
    /\ downloads = <<"empty", "data", "empty">>
    /\ files = {"LGRRX_last_60d_20251231.csv"}

(***************************************************************************)
(* Properties of the dashboard.                                            *)
(***************************************************************************)
Computed(f) == tab_estimated_nav[f] # None

\* C4: for both funds the estimated NAV is baselineNav * (1 + scaledEstimate /
\* 100), i.e. 100 * NAV = baselineNav * (100 + scaledEstimate), where
\* scaledEstimate is what calculate_fund_change returns for that fund's
\* records and that fund's total coverage weight; with scaledEstimate = 0 the
\* estimated NAV is the baseline NAV exactly.
C4_EstimatedNav ==
    \A f \in Funds : Computed(f) =>
        LET data == tab_holdings_data[f][1]
            change == tab_fund_change[f][1]
            nav == tab_estimated_nav[f][1]
        IN  /\ \A i \in 1..10 : /\ data[i].ticker = TOP_10(f)[i].ticker
                                /\ data[i].weight = TOP_10(f)[i].weight
            /\ calculate_fund_change(data, TOTAL_TOP10_WEIGHT(f)) = Returns(change)
            /\ RMul(nav, R(100)) = RMul(baseline_nav[f], RAdd(R(100), change))
            /\ change = Zero => nav = baseline_nav[f]

C4_Witness ==
    /\ Computed("lgrrx") /\ Computed("sp500")
    /\ baseline_nav["sp500"] = R(100)
    /\ tab_fund_change["sp500"] = Some(R(10))
    /\ tab_estimated_nav["sp500"] = Some(R(110))
    /\ ~HasDefinedChange(tab_holdings_data["lgrrx"][1])
    /\ tab_estimated_nav["lgrrx"] = Some(Rat(7381, 100))

\* The sum of the weights of a list of holdings, in hundredths.
RECURSIVE WeightHundredths(_)
WeightHundredths(holdings) ==
    IF holdings = <<>> THEN 0
    ELSE RMul(Head(holdings).weight, R(100))[1] + WeightHundredths(Tail(holdings))

\* C6: for each fund the total coverage weight handed to
\* calculate_fund_change equals the sum of the weights of the fund's tracked
\* holdings, in hundredths; so when every holding has the same defined change
\* c, the scaled estimate is c.
C6_TotalWeightIsSum ==
    \A f \in Funds : Computed(f) =>
        LET data == tab_holdings_data[f][1]
        IN  /\ RMul(TOTAL_TOP10_WEIGHT(f), R(100)) = R(WeightHundredths(TOP_10(f)))
            /\ (/\ data[1].change # None
                /\ \A i \in 1..10 : data[i].change = data[1].change)
                 => tab_fund_change[f] = data[1].change

\* C8: when the user supplies a manual price for a holding, the fund's
\* estimate is computed with that price in place of the fetched one: the
\* record the estimate is computed from carries the user-entered price.
C8_ManualPriceUsed ==
    \A f \in Funds :
        (Computed(f) /\ manual_price # None /\ manual_price[1].fund = f) =>
            tab_holdings_data[f][1][manual_price[1].holding].price
                = Some(manual_price[1].price)

\* C9 as claimed: in every run, the records used for a fund's estimate were
\* retrieved no more than 60 seconds earlier and after the most recent
\* Refresh click.
C9_UsedRecordsFresh ==
    \A f \in Funds : used[f] # None =>
        /\ used[f][1].age <= 60
        /\ ~used[f][1].before_click

\* C9 as amended: the records used are no more than 60 seconds old; they
\* were retrieved after the most recent Refresh click except in tab1's block
\* of the run started by a click on tab2's Refresh, which the script abandons
\* at tab2's button; once a click has been handled no entry retrieved before
\* it is left in the cache, for either fund.
C9_FreshOnceRefreshHandled ==
    /\ \A f \in Funds : used[f] # None =>
        /\ used[f][1].age <= 60
        /\ used[f][1].before_click =>
             (f = "lgrrx" /\ run_pc = "sp500" /\ button = "sp500_refresh")
    /\ \A f \in Funds :
        (cache[f] # None /\ cache[f][1].before_click) => button # "none"
    /\ run_pc = "idle" => button = "none"

\* A click on tab2's Refresh is being handled 40 seconds after both funds
\* were fetched: tab1 was served from the cache, tab2's button is next.
C9_Witness ==
    /\ run_pc = "sp500"
    /\ button = "sp500_refresh"
    /\ used["lgrrx"] = Some([age |-> 40, before_click |-> TRUE])
    /\ cache["sp500"] # None
    /\ cache["sp500"][1].before_click

====
